---- MODULE Spec2Model ----
(***************************************************************************)
(* Model of the movie/chat HTTP backend in src/main.rs: the SQLite store   *)
(* (tables users, movies, chats) and the six request handlers. A handler   *)
(* that awaits the store twice (login) or computes before its single       *)
(* statement (register) is split at the await, so that other requests can  *)
(* run in between; every SQL statement is one atomic step.                 *)
(***************************************************************************)
EXTENDS Integers, Sequences, FiniteSets, TLC

VARIABLES
    users,         \* table users: row i has id i (AUTOINCREMENT, rows never deleted)
    chats,         \* table chats: row i has chat_id i
    movies,        \* table movies: populated outside this program, read only
    foreign_keys,  \* whether the connection enforces FOREIGN KEY clauses
    now,           \* CURRENT_TIMESTAMP of the store, in whole seconds
    task,          \* the requests suspended at an await, one per slot
    out            \* the response written by the last step, NoOut if none

vars == <<users, chats, movies, foreign_keys, now, task, out>>

----------------------------------------------------------------------------
(* Bounds of the model and the inputs requests are drawn from.             *)

MaxUsers == 2
MaxChats == 2
MaxTime == 1
MaxTasks == 2

Slots == 1..MaxTasks
Usernames == {"", "alice"}
Passwords == {"", "pw1"}
Salts == {"s1"}
MovieIds == {0, 2}
UserIds == {1, 2}
ChatTexts == { <<>>, <<" ", "\t">>, <<" ", "h", "i">> }
Params == { <<"0">>, <<"1">>, <<"2">>, <<"a", "b", "c">> }

----------------------------------------------------------------------------
(* bcrypt.  A hash carries its cost and salt, and a digest that is a       *)
(* one-way function of cost, salt and password; it never equals the        *)
(* password.                                                               *)

DEFAULT_COST == 12

Digest(cost, salt, password) == <<cost, salt, password>>

Hash(password, cost, salt) ==
    [cost |-> cost, salt |-> salt, digest |-> Digest(cost, salt, password)]

\* A verification that accepts any password.
VerifyAlways(password, hashed) == TRUE

Verify(password, hashed) ==
    Digest(hashed.cost, hashed.salt, password) = hashed.digest

----------------------------------------------------------------------------
(* str::trim and str::parse::<i32>, on strings as sequences of characters. *)

White == {" ", "\t", "\n"}

RECURSIVE TrimStart(_)
TrimStart(s) ==
    IF s # <<>> /\ Head(s) \in White THEN TrimStart(Tail(s)) ELSE s

RECURSIVE TrimEnd(_)
TrimEnd(s) ==
    IF s # <<>> /\ s[Len(s)] \in White THEN TrimEnd(SubSeq(s, 1, Len(s) - 1)) ELSE s

\* No trimming at all.
TrimNothing(s) == s

Trim(s) == TrimEnd(TrimStart(s))

I32Max == 2147483647

I32Min == (0 - I32Max) - 1

DigitChars == <<"0", "1", "2", "3", "4", "5", "6", "7", "8", "9">>

IsDigit(c) == \E d \in 1..10 : DigitChars[d] = c

DigitVal(c) == (CHOOSE d \in 1..10 : DigitChars[d] = c) - 1

ParseErr == [ok |-> FALSE, val |-> 0]

\* The digits of a non-negative number, accumulated upwards with checked
\* multiplication and addition.
RECURSIVE ParsePositive(_, _)
ParsePositive(s, acc) ==
    IF s = <<>> THEN [ok |-> TRUE, val |-> acc]
    ELSE IF ~IsDigit(Head(s)) THEN ParseErr
    ELSE IF acc > (I32Max - DigitVal(Head(s))) \div 10 THEN ParseErr
    ELSE ParsePositive(Tail(s), acc * 10 + DigitVal(Head(s)))

\* The digits of a negative number, accumulated downwards with checked
\* multiplication and subtraction.
RECURSIVE ParseNegative(_, _)
ParseNegative(s, acc) ==
    IF s = <<>> THEN [ok |-> TRUE, val |-> acc]
    ELSE IF ~IsDigit(Head(s)) THEN ParseErr
    ELSE IF acc < (I32Min + DigitVal(Head(s)) + 9) \div 10 THEN ParseErr
    ELSE ParseNegative(Tail(s), acc * 10 - DigitVal(Head(s)))

ParseI32(s) ==
    IF s = <<>> THEN ParseErr
    ELSE IF Head(s) \in {"+", "-"} /\ Len(s) = 1 THEN ParseErr
    ELSE IF Head(s) = "-" THEN ParseNegative(Tail(s), 0)
    ELSE IF Head(s) = "+" THEN ParsePositive(Tail(s), 0)
    ELSE ParsePositive(s, 0)

UnwrapOr0(parsed) == IF parsed.ok THEN parsed.val ELSE 0

----------------------------------------------------------------------------
(* The store.                                                              *)

\* The rows of movies this model starts with (columns other than the id
\* and the two image paths are left out; an absent path is <<>>).
Catalog ==
    << [id |-> 0, backdrop_path |-> <<"/b0.jpg">>, poster_path |-> <<>>],
       [id |-> 1, backdrop_path |-> <<>>, poster_path |-> <<"/abc.jpg">>] >>

MovieExists(m) == \E i \in 1..Len(movies) : movies[i].id = m

UserIdExists(id) == id \in 1..Len(users)

\* SELECT id, password FROM users WHERE username = ? : the matching ids.
UserIdsNamed(username) == {i \in 1..Len(users) : users[i].username = username}

\* A users table without the UNIQUE constraint.
UsernameNeverTaken(username) == FALSE

\* username TEXT UNIQUE NOT NULL: a bound string is never NULL, so only
\* UNIQUE can reject a row.

UsernameTaken(username) == UserIdsNamed(username) # {}

NoResult == [ok |-> TRUE, err |-> ""]

\* INSERT INTO users (username, password, logged_in) VALUES (?, ?, 0)
InsertUserResult(username) ==
    IF UsernameTaken(username)
    THEN [ok |-> FALSE, err |-> "UNIQUE constraint failed: users.username"]
    ELSE NoResult

\* INSERT INTO chats (movie_id, user_id, chat) VALUES (?, ?, ?)
InsertChatResult(movie_id, user_id) ==
    IF foreign_keys /\ ~(MovieExists(movie_id) /\ UserIdExists(user_id))
    THEN [ok |-> FALSE, err |-> "FOREIGN KEY constraint failed"]
    ELSE NoResult

\* An insert that overwrites the newest row instead of adding one.
InsertChatReplacing(movie_id, user_id, chat) ==
    IF chats = <<>> THEN <<>>
    ELSE [chats EXCEPT ![Len(chats)] =
            [movie_id |-> movie_id, user_id |-> user_id, chat |-> chat,
             created_at |-> now]]

\* The row the INSERT adds: chat_id from AUTOINCREMENT, created_at from
\* DEFAULT CURRENT_TIMESTAMP.
InsertChat(movie_id, user_id, chat) ==
    Append(chats, [movie_id |-> movie_id, user_id |-> user_id, chat |-> chat,
                   created_at |-> now])

\* The join without its WHERE clause.
JoinedAnyMovie(movie_id) ==
    {i \in 1..Len(chats) : UserIdExists(chats[i].user_id)}

\* FROM chats c JOIN users u ON c.user_id = u.id WHERE c.movie_id = ?
JoinedChatIds(movie_id) ==
    {i \in 1..Len(chats) :
        chats[i].movie_id = movie_id /\ UserIdExists(chats[i].user_id)}

\* ORDER BY c.created_at ASC: every arrangement of the rows in which
\* created_at never decreases; rows of equal created_at come in any order.
OrderByCreatedAt(ids) ==
    {s \in [1..Cardinality(ids) -> ids] :
        /\ \A i, j \in 1..Cardinality(ids) : i # j => s[i] # s[j]
        /\ \A i, j \in 1..Cardinality(ids) :
              i < j => chats[s[i]].created_at <= chats[s[j]].created_at}

ChatMessage(i) ==
    [chat_id    |-> i,
     movie_id   |-> chats[i].movie_id,
     user_id    |-> chats[i].user_id,
     username   |-> users[chats[i].user_id].username,
     chat       |-> chats[i].chat,
     created_at |-> chats[i].created_at]

----------------------------------------------------------------------------
(* Responses and suspended requests.                                       *)

NoOut == [op |-> "none", status |-> 0, message |-> "", body |-> <<>>, req |-> <<>>]

Response(op, req, status, message) ==
    [op |-> op, status |-> status, message |-> message, body |-> <<>>, req |-> req]

Idle == [pc |-> "idle", username |-> "", password |-> "", hashed |-> <<>>, user_id |-> 0]

\* The tables users and chats as CREATE TABLE IF NOT EXISTS makes them in a
\* new database file. Whether FOREIGN KEY clauses are enforced is a setting
\* of the connection that main does not choose: both settings are initial
\* states.
Init ==
    /\ users = <<>>
    /\ chats = <<>>
    /\ movies = Catalog
    /\ foreign_keys \in BOOLEAN
    /\ now = 0
    /\ task = [r \in Slots |-> Idle]
    /\ out = NoOut

----------------------------------------------------------------------------
(* register                                                                *)

\* body_json and bcrypt::hash, up to the await of the INSERT.
register_hash(r, username, password, salt) ==
    /\ task[r].pc = "idle"
    /\ task' = [task EXCEPT ![r] =
                  [pc |-> "register", username |-> username, password |-> password,
                   hashed |-> Hash(password, DEFAULT_COST, salt), user_id |-> 0]]
    /\ out' = NoOut
    /\ UNCHANGED <<users, chats, movies, foreign_keys, now>>

\* The INSERT and the response built from its result.
register_insert(r) ==
    /\ task[r].pc = "register"
    /\ LET t      == task[r]
           req    == [username |-> t.username, password |-> t.password]
           result == InsertUserResult(t.username)
       IN  /\ result.ok => Len(users) < MaxUsers
           /\ IF result.ok
              THEN /\ users' = Append(users, [username  |-> t.username,
                                              password  |-> t.hashed,
                                              logged_in |-> FALSE])
                   /\ out' = Response("register", req, 200, "Berhasil Daftar")
              ELSE /\ users' = users
                   /\ out' = Response("register", req, 400,
                                      "Gagal Daftar: " \o result.err)
    /\ task' = [task EXCEPT ![r] = Idle]
    /\ UNCHANGED <<chats, movies, foreign_keys, now>>

----------------------------------------------------------------------------
(* login                                                                   *)

\* The SELECT, the two early returns, and bcrypt::verify, up to the await
\* of the UPDATE.
login_fetch(r, username, password) ==
    /\ task[r].pc = "idle"
    /\ LET req == [username |-> username, password |-> password]
           row == UserIdsNamed(username)
       IN  IF row = {}
           THEN /\ out' = Response("login", req, 401, "User tidak ditemukan")
                /\ task' = task
           ELSE LET user_id == CHOOSE i \in row : TRUE
                IN  IF ~Verify(password, users[user_id].password)
                    THEN /\ out' = Response("login", req, 401, "Password salah")
                         /\ task' = task
                    ELSE /\ out' = NoOut
                         /\ task' = [task EXCEPT ![r] =
                                       [pc |-> "login", username |-> username,
                                        password |-> password, hashed |-> <<>>,
                                        user_id |-> user_id]]
    /\ UNCHANGED <<users, chats, movies, foreign_keys, now>>

\* An UPDATE without its WHERE clause.
SetLoggedInAll(user_id) ==
    [i \in 1..Len(users) |-> [users[i] EXCEPT !.logged_in = TRUE]]

\* An UPDATE that matches no row.
SetLoggedInKeep(user_id) == users

\* UPDATE users SET logged_in = 1 WHERE id = ?

SetLoggedIn(user_id) ==
    [i \in 1..Len(users) |->
        IF i = user_id THEN [users[i] EXCEPT !.logged_in = TRUE] ELSE users[i]]

login_update(r) ==
    /\ task[r].pc = "login"
    /\ users' = SetLoggedIn(task[r].user_id)
    /\ out' = Response("login",
                       [username |-> task[r].username, password |-> task[r].password],
                       200, "Berhasil Login")
    /\ task' = [task EXCEPT ![r] = Idle]
    /\ UNCHANGED <<chats, movies, foreign_keys, now>>

----------------------------------------------------------------------------
(* logout                                                                  *)

\* An UPDATE without its WHERE clause.
ClearLoggedInAll(username) ==
    [i \in 1..Len(users) |-> [users[i] EXCEPT !.logged_in = FALSE]]

\* UPDATE users SET logged_in = 0 WHERE username = ?

ClearLoggedIn(username) ==
    [i \in 1..Len(users) |->
        IF users[i].username = username
        THEN [users[i] EXCEPT !.logged_in = FALSE] ELSE users[i]]

logout(username) ==
    /\ LET req           == [username |-> username]
           rows_affected == Cardinality(UserIdsNamed(username))
       IN  /\ users' = ClearLoggedIn(username)
           /\ IF rows_affected = 0
              THEN out' = Response("logout", req, 400, "User tidak ditemukan")
              ELSE out' = Response("logout", req, 200, "Sayonara")
    /\ UNCHANGED <<chats, movies, foreign_keys, now, task>>

----------------------------------------------------------------------------
(* get_movies                                                              *)

base_url == "https://image.tmdb.org/t/p/original"

Absolutize(path) == IF path = <<>> THEN <<>> ELSE <<base_url \o path[1]>>

get_movies ==
    /\ out' = [Response("get_movies", <<>>, 200, "") EXCEPT !.body =
                 [i \in 1..Len(movies) |->
                    [movies[i] EXCEPT !.backdrop_path = Absolutize(@),
                                      !.poster_path = Absolutize(@)]]]
    /\ UNCHANGED <<users, chats, movies, foreign_keys, now, task>>

----------------------------------------------------------------------------
(* post_chat                                                               *)

post_chat(movie_id, user_id, chat) ==
    /\ LET req == [movie_id |-> movie_id, user_id |-> user_id, chat |-> chat]
       IN  IF Trim(chat) = <<>>
           THEN /\ out' = Response("post_chat", req, 400,
                                   "Pesan chat tidak boleh kosong")
                /\ chats' = chats
           ELSE LET result == InsertChatResult(movie_id, user_id)
                IN  /\ result.ok => Len(chats) < MaxChats
                    /\ IF result.ok
                       THEN /\ chats' = InsertChat(movie_id, user_id, chat)
                            /\ out' = Response("post_chat", req, 200, "Pesan terkirim")
                       ELSE /\ chats' = chats
                            /\ out' = Response("post_chat", req, 500,
                                               "Gagal mengirim pesan: " \o result.err)
    /\ UNCHANGED <<users, movies, foreign_keys, now, task>>

----------------------------------------------------------------------------
(* get_chats                                                               *)

PathMovieId(movie_id_param) == UnwrapOr0(ParseI32(movie_id_param))

get_chats(movie_id_param) ==
    /\ LET movie_id == PathMovieId(movie_id_param)
       IN  \E order \in OrderByCreatedAt(JoinedChatIds(movie_id)) :
              out' = [Response("get_chats", [movie_id |-> movie_id_param], 200, "")
                        EXCEPT !.body = [k \in 1..Len(order) |-> ChatMessage(order[k])]]
    /\ UNCHANGED <<users, chats, movies, foreign_keys, now, task>>

----------------------------------------------------------------------------
(* The store's clock.                                                      *)

Tick ==
    /\ now < MaxTime
    /\ now' = now + 1
    /\ out' = NoOut
    /\ UNCHANGED <<users, chats, movies, foreign_keys, task>>

----------------------------------------------------------------------------

\* The authentication handlers: they read and write the users table only.
NextAuth ==
    \/ \E r \in Slots, u \in Usernames, p \in Passwords, s \in Salts :
          register_hash(r, u, p, s)
    \/ \E r \in Slots : register_insert(r)
    \/ \E r \in Slots, u \in Usernames, p \in Passwords : login_fetch(r, u, p)
    \/ \E r \in Slots : login_update(r)
    \/ \E u \in Usernames : logout(u)

\* The whole server.
Next ==
    \/ NextAuth
    \/ get_movies
    \/ \E m \in MovieIds, u \in UserIds, c \in ChatTexts : post_chat(m, u, c)
    \/ \E p \in Params : get_chats(p)
    \/ Tick

\* The whole server with one request suspended at a time and one username:
\* the catalogue and chat handlers read only the ids and usernames of
\* users, and UserIds keeps an id without a user row.
NextAll ==
    \/ \E s \in Salts : register_hash(1, "alice", "pw1", s)
    \/ register_insert(1)
    \/ \E p \in Passwords : login_fetch(1, "alice", p)
    \/ login_update(1)
    \/ \E u \in Usernames : logout(u)
    \/ get_movies
    \/ \E m \in MovieIds, u \in UserIds, c \in ChatTexts : post_chat(m, u, c)
    \/ \E p \in Params : get_chats(p)
    \/ Tick

Spec == Init /\ [][Next]_vars

SpecAuth == Init /\ [][NextAuth]_vars

SpecAll == Init /\ [][NextAll]_vars

----------------------------------------------------------------------------
(* Vocabulary of the properties.                                           *)

\* The password a user row was registered with.
RegisteredPassword(i) == users[i].password.digest[3]

HasUser(username) == \E i \in 1..Len(users) : users[i].username = username

CorrectCredentials(username, password) ==
    \E i \in 1..Len(users) :
        users[i].username = username /\ RegisteredPassword(i) = password

RegisterCompletes(r) == task[r].pc = "register" /\ task'[r].pc = "idle"

LoginCompletes(r) == task[r].pc = "login" /\ task'[r].pc = "idle"

LoginSuspends(r) == task[r].pc = "idle" /\ task'[r].pc = "login"

UsernamesUnique ==
    \A i, j \in 1..Len(users) : users[i].username = users[j].username => i = j

\* The movie a list-chats response is about, and the rows posted for it.
ListedMovie == IF ParseI32(out.req.movie_id).ok THEN ParseI32(out.req.movie_id).val ELSE 0

PostedFor(movie_id) == {i \in 1..Len(chats) : chats[i].movie_id = movie_id}

\* The positions at which row i of chats appears in the listing.
PositionsOf(i) == {k \in 1..Len(out.body) : out.body[k].chat_id = i}

----------------------------------------------------------------------------
(* C1 *)

\* C1: the users table never holds two rows with one username, and a
\* register request that reaches its INSERT succeeds (200, one new row with
\* logged_in = false) exactly when no row has its username; otherwise it
\* fails (400) and the table is unchanged. So of two requests with the same
\* username, however their steps interleave, exactly one succeeds.
C1_UsernameUnique ==
    /\ []UsernamesUnique
    /\ [][\A r \in Slots : RegisterCompletes(r) =>
            /\ out'.op = "register"
            /\ out'.req.username = task[r].username
            /\ IF HasUser(task[r].username)
               THEN out'.status = 400 /\ users' = users
               ELSE /\ out'.status = 200
                    /\ users' = Append(users, [username  |-> task[r].username,
                                               password  |-> task[r].hashed,
                                               logged_in |-> FALSE])]_vars

\* Two different requests for one username have completed: the later one
\* was refused and the username has its single row, from the earlier one.
C1_Witness ==
    /\ out.op = "register"
    /\ out.status = 400
    /\ Cardinality(UserIdsNamed(out.req.username)) = 1
    /\ \A i \in UserIdsNamed(out.req.username) :
          RegisteredPassword(i) # out.req.password

----------------------------------------------------------------------------
(* C2 *)

\* C2: a login with the username and password of a registered user is
\* never answered 401, and when it completes it answers 200 and that
\* user's logged_in is true, whatever it was before.
C2_LoginSetsFlag ==
    [][/\ (out'.op = "login" /\ out'.status # 200) =>
             ~CorrectCredentials(out'.req.username, out'.req.password)
       /\ \A r \in Slots : LoginCompletes(r) =>
             /\ out'.op = "login"
             /\ out'.status = 200
             /\ out'.req.username = task[r].username
             /\ \A i \in 1..Len(users') :
                   users'[i].username = task[r].username => users'[i].logged_in]_vars

\* A login has succeeded while a second login of the same user is still
\* suspended before its UPDATE: that one will find the flag already set.
C2_Witness ==
    /\ out.op = "login"
    /\ out.status = 200
    /\ \E i \in 1..Len(users) : users[i].username = out.req.username /\ users[i].logged_in
    /\ \E r \in Slots : task[r].pc = "login" /\ task[r].username = out.req.username

----------------------------------------------------------------------------
(* C3 *)

\* C3: a login for a username without a row answers 401 "User tidak
\* ditemukan", a login for an existing user with another password than the
\* registered one answers 401 "Password salah", and neither changes the
\* users table.
C3_LoginFailures ==
    [][/\ \A r \in Slots : LoginSuspends(r) =>
             CorrectCredentials(task'[r].username, task'[r].password)
       /\ (out'.op = "login" /\ out'.status # 200) =>
             /\ out'.status = 401
             /\ users' = users
             /\ out'.message = IF HasUser(out'.req.username)
                               THEN "Password salah"
                               ELSE "User tidak ditemukan"]_vars

\* A wrong password was refused for a user who is logged in, and still is.
C3_Witness ==
    /\ out.op = "login"
    /\ out.status = 401
    /\ out.message = "Password salah"
    /\ \E i \in 1..Len(users) : users[i].username = out.req.username /\ users[i].logged_in

----------------------------------------------------------------------------
(* C4 *)

\* C4: a logout for a username without a row answers 400 "User tidak
\* ditemukan" and changes nothing; a logout for a registered username
\* answers 200 and leaves that user's logged_in false, whatever it was.
C4_Logout ==
    [][out'.op = "logout" =>
          IF HasUser(out'.req.username)
          THEN /\ out'.status = 200
               /\ Len(users') = Len(users)
               /\ \A i \in 1..Len(users) :
                     users[i].username = out'.req.username =>
                        /\ users'[i].username = users[i].username
                        /\ ~users'[i].logged_in
          ELSE /\ out'.status = 400
               /\ out'.message = "User tidak ditemukan"
               /\ users' = users]_vars

\* A registered user was logged out while another user stays logged in.
C4_Witness ==
    /\ out.op = "logout"
    /\ out.status = 200
    /\ \E i \in 1..Len(users) : users[i].username = out.req.username /\ ~users[i].logged_in
    /\ \E i \in 1..Len(users) : users[i].username # out.req.username /\ users[i].logged_in

----------------------------------------------------------------------------
(* C5 *)

\* C5: a list-chats response for movie m holds every message posted for m
\* so far, each one after all the messages for m posted before it.
C5_PostedThenListed ==
    (out.op = "get_chats" /\ ParseI32(out.req.movie_id).ok) =>
        \A i \in PostedFor(ListedMovie) :
            /\ PositionsOf(i) # {}
            /\ \A j \in PostedFor(ListedMovie) : j < i =>
                  \A k \in PositionsOf(i) : \E l \in PositionsOf(j) : l < k

----------------------------------------------------------------------------
(* C6 *)

\* C6 as stated: a list-chats request with a path parameter that is no
\* integer, or for a movie without messages, answers 200 with an empty
\* array.
C6_EmptyForMalformed ==
    (out.op = "get_chats"
       /\ (~ParseI32(out.req.movie_id).ok \/ PostedFor(ListedMovie) = {})) =>
        out.status = 200 /\ out.body = <<>>

\* C6 as amended: a list-chats request always answers 200; a path
\* parameter that is no integer is read as movie 0; the array holds rows of
\* that movie only, and is empty when that movie has no messages.
C6_EmptyWhenNoMessages ==
    out.op = "get_chats" =>
        /\ out.status = 200
        /\ \A k \in 1..Len(out.body) : out.body[k].movie_id = ListedMovie
        /\ PostedFor(ListedMovie) = {} => out.body = <<>>

\* A malformed parameter got an empty array while another movie has a
\* message that a listing would show.
C6_Witness ==
    /\ out.op = "get_chats"
    /\ ~ParseI32(out.req.movie_id).ok
    /\ out.status = 200
    /\ out.body = <<>>
    /\ \E i \in 1..Len(chats) : UserIdExists(chats[i].user_id)

----------------------------------------------------------------------------
(* C8 *)

IsBlank(text) == \A k \in 1..Len(text) : text[k] \in White

\* C8: a post-chat request whose text is empty or all whitespace answers
\* 400 "Pesan chat tidak boleh kosong" and leaves the chats table as it
\* was, and no chat row ever has a text that is empty or all whitespace.
C8_BlankRejected ==
    /\ [](\A i \in 1..Len(chats) : ~IsBlank(chats[i].chat))
    /\ [][(out'.op = "post_chat" /\ IsBlank(out'.req.chat)) =>
            /\ out'.status = 400
            /\ out'.message = "Pesan chat tidak boleh kosong"
            /\ chats' = chats]_vars

\* A whitespace-only text was refused while the table holds a message.
C8_Witness ==
    /\ out.op = "post_chat"
    /\ out.status = 400
    /\ out.req.chat # <<>>
    /\ IsBlank(out.req.chat)
    /\ chats # <<>>

----------------------------------------------------------------------------
(* C9 *)

\* C9: every step of every handler keeps each chat row as it is, under the
\* same chat_id; the table changes only in a post-chat that answers 200,
\* which adds exactly one row under a new chat_id.
C9_ChatsAppendOnly ==
    [][/\ Len(chats') >= Len(chats)
       /\ \A i \in 1..Len(chats) : chats'[i] = chats[i]
       /\ chats' # chats =>
             /\ out'.op = "post_chat"
             /\ out'.status = 200
             /\ Len(chats') = Len(chats) + 1
       /\ (out'.op = "post_chat" /\ out'.status = 200) =>
             /\ Len(chats') = Len(chats) + 1
             /\ chats'[Len(chats')].movie_id = out'.req.movie_id
             /\ chats'[Len(chats')].user_id = out'.req.user_id
             /\ chats'[Len(chats')].chat = out'.req.chat]_vars

\* A second message was added after a user logged in, the first one kept.
C9_Witness ==
    /\ out.op = "post_chat"
    /\ out.status = 200
    /\ Len(chats) = 2
    /\ \E i \in 1..Len(users) : users[i].logged_in

----------------------------------------------------------------------------
(* C10 *)

FlagChanges(i) == users'[i].logged_in # users[i].logged_in

\* C10: no step removes a user row or changes its username or stored
\* password, and a new row starts logged out; the UPDATE of a login hits
\* the row its SELECT read; a flag becomes true only in the UPDATE of a
\* login for that user whose password is the registered one, and changes
\* at all only in that UPDATE or in a logout for that user's username.
C10_LoginRaceBenign ==
    [][/\ Len(users') >= Len(users)
       /\ \A i \in 1..Len(users) :
             /\ users'[i].username = users[i].username
             /\ users'[i].password = users[i].password
       /\ \A i \in (Len(users) + 1)..Len(users') : ~users'[i].logged_in
       /\ \A r \in Slots : LoginCompletes(r) =>
             /\ task[r].user_id \in 1..Len(users)
             /\ users[task[r].user_id].username = task[r].username
             /\ users'[task[r].user_id].logged_in
       /\ \A i \in 1..Len(users) : FlagChanges(i) =>
             \/ /\ users'[i].logged_in
                /\ \E r \in Slots :
                      /\ LoginCompletes(r)
                      /\ task[r].user_id = i
                      /\ RegisteredPassword(i) = task[r].password
             \/ /\ ~users'[i].logged_in
                /\ out'.op = "logout"
                /\ out'.req.username = users[i].username]_vars

\* A login completed for one user while the other user, registered too,
\* stays logged out and a third request is suspended.
C10_Witness ==
    /\ out.op = "login"
    /\ out.status = 200
    /\ \E i \in 1..Len(users) : users[i].username = out.req.username /\ users[i].logged_in
    /\ \E i \in 1..Len(users) : users[i].username # out.req.username /\ ~users[i].logged_in
    /\ \E r \in Slots : task[r].pc # "idle"

----------------------------------------------------------------------------
(* C7 *)

\* C7: a register request with an empty username or an empty password is
\* refused, and no user row has an empty username.
C7_NonEmptyRequired ==
    /\ (out.op = "register" /\ (out.req.username = "" \/ out.req.password = "")) =>
          out.status = 400
    /\ \A i \in 1..Len(users) : users[i].username # ""

====
